---------------------------- MODULE Spec2Model ----------------------------
(***************************************************************************)
(* Model of the Mars crop simulation scripts:                              *)
(*   plant_simulation_2.py  (soil-only growth simulation)                  *)
(*   plant_simulation_3.py  (growth simulation with environment lookups)   *)
(*   solar_radiation_make.py, temperature_make.py, dust_storm_make.py      *)
(*                          (generators of the environment CSV files)      *)
(*                                                                         *)
(* Python floats are modelled as decimal floating point numbers <<m, e>>   *)
(* (value m * 10^e) with Digits significant digits, round-half-even, the   *)
(* exponent range of binary64, and the special values inf, -inf and nan.   *)
(***************************************************************************)
EXTENDS Integers, Sequences, FiniteSets, TLC

(***************************************************************************)
(* Floating point arithmetic                                               *)
(***************************************************************************)

\* Significant decimal digits of a modelled float.
Digits == 3

\* Largest and smallest decimal exponent of a finite nonzero binary64.
EMax == 308
EMin == -324

\* Exponent field that marks the special values.
ESpecial == 1000

Zero == <<0, 0>>
NaN == <<0, ESpecial>>
PosInf == <<1, ESpecial>>
NegInf == <<-1, ESpecial>>

IsNaN(a) == a = NaN
IsInf(a) == a = PosInf \/ a = NegInf
IsNum(a) == a[2] # ESpecial

Abs(n) == IF n < 0 THEN -n ELSE n
Sgn(n) == IF n < 0 THEN -1 ELSE IF n = 0 THEN 0 ELSE 1

RECURSIVE NumDigits(_), Pack(_, _, _)
NumDigits(n) == IF n < 10 THEN 1 ELSE 1 + NumDigits(n \div 10)

\* n / d rounded to the nearest integer, ties to even (n >= 0, d > 0).
RoundDiv(n, d) ==
    LET q == n \div d
        r == n % d
    IN  IF 2 * r > d \/ (2 * r = d /\ q % 2 = 1) THEN q + 1 ELSE q

\* The float with sign sg, mantissa q (Digits digits, or 10^Digits after a
\* carry) and exponent ex: overflow to inf, underflow to 0.
Pack(sg, q, ex) ==
    IF q = 10 ^ Digits THEN Pack(sg, 10 ^ (Digits - 1), ex + 1)
    ELSE IF ex + Digits - 1 > EMax THEN (IF sg > 0 THEN PosInf ELSE NegInf)
    ELSE IF ex + Digits - 1 < EMin THEN Zero
    ELSE <<sg * q, ex>>

\* The magnitude a of nd digits rounded to Digits digits.
RoundTo(sg, a, nd, e) ==
    Pack(sg,
         IF nd > Digits THEN RoundDiv(a, 10 ^ (nd - Digits)) ELSE a * 10 ^ (Digits - nd),
         e + (nd - Digits))

\* The float nearest to m * 10^e.
Norm(m, e) ==
    IF m = 0 THEN Zero ELSE RoundTo(Sgn(m), Abs(m), NumDigits(Abs(m)), e)

\* A decimal literal m * 10^e of the source.
F(m, e) == Norm(m, e)

FSgn(a) == Sgn(a[1])

FNeg(a) == IF IsNaN(a) THEN NaN ELSE <<-a[1], a[2]>>

FAbs(a) == IF IsNaN(a) THEN NaN ELSE <<Abs(a[1]), a[2]>>

\* The sum of hi and lo, the exponent of hi not below that of lo.
AddAligned(hi, lo) ==
    IF hi[2] - lo[2] > Digits + 1 THEN hi
    ELSE Norm(hi[1] * 10 ^ (hi[2] - lo[2]) + lo[1], lo[2])

FAdd(a, b) ==
    IF IsNaN(a) \/ IsNaN(b) THEN NaN
    ELSE IF IsInf(a) THEN (IF IsInf(b) /\ a # b THEN NaN ELSE a)
    ELSE IF IsInf(b) THEN b
    ELSE IF a[1] = 0 THEN b
    ELSE IF b[1] = 0 THEN a
    ELSE IF a[2] >= b[2] THEN AddAligned(a, b) ELSE AddAligned(b, a)

FSub(a, b) == FAdd(a, FNeg(b))

FMul(a, b) ==
    IF IsNaN(a) \/ IsNaN(b) THEN NaN
    ELSE IF IsInf(a) \/ IsInf(b)
         THEN (IF a[1] = 0 \/ b[1] = 0 THEN NaN
               ELSE IF Sgn(a[1]) = Sgn(b[1]) THEN PosInf ELSE NegInf)
    ELSE Norm(a[1] * b[1], a[2] + b[2])

\* Division as numpy's float64 does it: x / 0 is inf or nan, never an error.
FDiv(a, b) ==
    IF IsNaN(a) \/ IsNaN(b) THEN NaN
    ELSE IF IsInf(a)
         THEN (IF IsInf(b) THEN NaN
               ELSE IF (a[1] > 0) = (b[1] >= 0) THEN PosInf ELSE NegInf)
    ELSE IF IsInf(b) THEN Zero
    ELSE IF b[1] = 0
         THEN (IF a[1] = 0 THEN NaN ELSE IF a[1] > 0 THEN PosInf ELSE NegInf)
    ELSE Norm(Sgn(a[1]) * Sgn(b[1]) * ((Abs(a[1]) * 10 ^ (Digits + 1)) \div Abs(b[1])),
              a[2] - b[2] - (Digits + 1))

\* a < b; false when either is nan.
FLt(a, b) ==
    IF IsNaN(a) \/ IsNaN(b) THEN FALSE
    ELSE IF a = b THEN FALSE
    ELSE IF a = NegInf \/ b = PosInf THEN TRUE
    ELSE IF a = PosInf \/ b = NegInf THEN FALSE
    ELSE IF Sgn(a[1]) # Sgn(b[1]) THEN Sgn(a[1]) < Sgn(b[1])
    ELSE IF a[1] > 0
         THEN a[2] < b[2] \/ (a[2] = b[2] /\ a[1] < b[1])
         ELSE a[2] > b[2] \/ (a[2] = b[2] /\ a[1] < b[1])

FLe(a, b) == ~IsNaN(a) /\ ~IsNaN(b) /\ (a = b \/ FLt(a, b))

\* 10^(k/10), 10^(k/100), 10^(k/1000) for k = 0..9, scaled by 10^4.
ExpT1 == <<10000, 12589, 15849, 19953, 25119, 31623, 39811, 50119, 63096, 79433>>
ExpT2 == <<10000, 10233, 10471, 10715, 10965, 11220, 11482, 11749, 12023, 12303>>
ExpT3 == <<10000, 10023, 10046, 10069, 10093, 10116, 10139, 10162, 10186, 10209>>

\* a as an integer number of thousandths, for |a| < 1000.
Milli(a) ==
    IF a[2] >= -3 THEN a[1] * 10 ^ (a[2] + 3)
    ELSE IF -3 - a[2] > Digits + 1 THEN 0
    ELSE Sgn(a[1]) * RoundDiv(Abs(a[1]), 10 ^ (-3 - a[2]))

\* 10^(y / 1000) for the integer y.
Pow10Milli(n, f) ==
    Norm(RoundDiv(RoundDiv(ExpT1[(f \div 100) + 1] * ExpT2[((f \div 10) % 10) + 1], 10000)
                      * ExpT3[(f % 10) + 1],
                  10000),
         n - 4)

\* e^(t / 1000) = 10^(t * log10 e / 1000), log10 e = 0.434294.
ExpMilli(t) ==
    Pow10Milli(((t * 434 + ((t * 294) \div 1000) + 500) \div 1000) \div 1000,
               ((t * 434 + ((t * 294) \div 1000) + 500) \div 1000) % 1000)

\* np.exp; exp(-inf) = 0, and no exception on overflow or underflow.
FExp(a) ==
    IF IsNaN(a) THEN NaN
    ELSE IF a = PosInf THEN PosInf
    ELSE IF a = NegInf THEN Zero
    ELSE IF a[1] # 0 /\ a[2] + Digits - 1 >= 3
         THEN (IF a[1] > 0 THEN PosInf ELSE Zero)
    ELSE ExpMilli(Milli(a))

\* Argument p in turns (p = x / (2 pi)), -1 <= p < 2, reduced to [0, 1).
FracTurn(p) ==
    IF FLt(p, Zero) THEN FAdd(p, F(1, 0))
    ELSE IF FLe(F(1, 0), p) THEN FSub(p, F(1, 0))
    ELSE p

\* Bhaskara's rational approximation of sin(pi h), 0 <= h <= 1, from
\* g = h (1 - h): 16 g / (5 - 4 g).
Bhaskara(g) == FDiv(FMul(F(16, 0), g), FSub(F(5, 0), FMul(F(4, 0), g)))
SinHalfTurn(h) == Bhaskara(FMul(h, FSub(F(1, 0), h)))

\* sin(2 pi r) for r in [0, 1).
SinReduced(r) ==
    IF FLe(F(5, -1), r) THEN FNeg(SinHalfTurn(FSub(FMul(F(2, 0), r), F(1, 0))))
    ELSE SinHalfTurn(FMul(F(2, 0), r))

\* math.sin / np.sin of 2 pi p.
FSinTurns(p) == SinReduced(FracTurn(p))

\* np.cos of 2 pi p.
FCosTurns(p) == FSinTurns(FAdd(FracTurn(p), F(25, -2)))

(***************************************************************************)
(* Program constants (plant_simulation_2.py, plant_simulation_3.py)        *)
(***************************************************************************)

NUM_DAYS == 100
NUM_CROPS == 7

Crops == 0 .. NUM_CROPS - 1
Days == 0 .. NUM_DAYS - 1

INIT_BIOMASS == F(1, -2)
INIT_HEIGHT == F(1, -1)

\* The per-crop tables; crop i is element i + 1.
MAX_BIOMASS == <<F(10, -1), F(5, -1), F(2, -1), F(1, -1), F(4, -1), F(3, -1), F(15, -2)>>
MAX_HEIGHT == <<F(10, -1), F(20, -1), F(3, -1), F(2, -1), F(15, -1), F(10, -1), F(5, -1)>>
PH_TOLERANCE == <<F(65, -1), F(65, -1), F(65, -1), F(65, -1), F(65, -1), F(65, -1), F(7, 0)>>
N_TOLERANCE == <<F(150, 0), F(150, 0), F(150, 0), F(150, 0), F(200, 0), F(150, 0), F(100, 0)>>
P_TOLERANCE == <<F(50, 0), F(50, 0), F(50, 0), F(50, 0), F(50, 0), F(50, 0), F(50, 0)>>
K_TOLERANCE == <<F(100, 0), F(100, 0), F(100, 0), F(100, 0), F(100, 0), F(100, 0), F(100, 0)>>
SOLAR_FACTOR == <<F(12, -1), F(12, -1), F(12, -1), F(12, -1), F(12, -1), F(12, -1), F(14, -1)>>
TEMP_FACTOR == <<F(12, -1), F(12, -1), F(14, -1), F(14, -1), F(12, -1), F(12, -1), F(1, 0)>>
DUST_FACTOR == <<F(8, -1), F(8, -1), F(8, -1), F(8, -1), F(8, -1), F(8, -1), F(6, -1)>>

LATITUDE == F(1865, -2)
ELEVATION == F(-45, -1)
TIME_ZONE == F(3, 0)

SOLAR_YEAR == 669
SOLAR_MIN == 136
SOLAR_MAX == 717
TEMP_YEAR == 669
TEMP_MIN == -143
TEMP_MAX == 35
DUST_YEAR == 669
DUST_MIN == F(1, -2)
DUST_MAX == F(99, -1)

\* Earth days per simulated step, as the literal 1.0274912517 of the source.
SOL_FACTOR == F(1027491252, -9)

(***************************************************************************)
(* The growth functions                                                    *)
(***************************************************************************)

\* logistic_growth(x, k) = k * x / (x + k - x * INIT_BIOMASS / k)
\* A growth step that adds the carrying capacity instead of approaching it.
logistic_overshoot(x, k) == FAdd(k, x)

logistic_growth(x, k) ==
    FDiv(FMul(k, x), FSub(FAdd(x, k), FDiv(FMul(x, INIT_BIOMASS), k)))

\* growth_factor(x, x_opt) = np.exp(-np.abs(x - x_opt) / x_opt)
growth_factor(x, x_opt) ==
    FExp(FDiv(FNeg(FAbs(FSub(x, x_opt))), x_opt))

(***************************************************************************)
(* The environment CSV files and the generator scripts                     *)
(***************************************************************************)

\* A CSV file on disk: its header row, and the program that wrote it (with
\* the argument that fixes what it wrote); Rows gives its data rows.
NoFile == [exists |-> FALSE, header |-> <<>>, writer |-> "none", arg |-> 0]

Csv(header, writer, arg) ==
    [exists |-> TRUE, header |-> header, writer |-> writer, arg |-> arg]

\* solar_radiation_make.py: solar_radiation(sol)
make_solar_radiation(sol) ==
    FAdd(FDiv(F(SOLAR_MAX + SOLAR_MIN, 0), F(2, 0)),
         FMul(FDiv(F(SOLAR_MAX - SOLAR_MIN, 0), F(2, 0)),
              FSinTurns(FDiv(F(sol, 0), F(SOLAR_YEAR, 0)))))

\* temperature_make.py: temperature(sol, hour)
make_temperature(sol, hour) ==
    FAdd(FDiv(F(TEMP_MAX + TEMP_MIN, 0), F(2, 0)),
         FMul(FDiv(F(TEMP_MAX - TEMP_MIN, 0), F(2, 0)),
              FSinTurns(FDiv(F(hour - 12, 0), F(24, 0)))))

\* dust_storm_make.py: dust_storm(sol), noise the value random.uniform drew.
make_dust_storm(sol, noise) ==
    FAdd(DUST_MIN,
         FMul(FSub(DUST_MAX, DUST_MIN),
              FAdd(FAdd(F(5, -1),
                        FMul(F(5, -1), FSinTurns(FDiv(F(sol, 0), F(DUST_YEAR, 0))))),
                   noise)))

\* The draws of random.uniform(-0.1, 0.1) over one run of dust_storm_make.py,
\* one pattern of draws per p.
MaxNoise == 1
NoiseDraw(p, sol) ==
    <<F(-1, -1), F(5, -2), Zero, F(-5, -2), F(99, -3)>>[((sol * (p + 1) + p) % 5) + 1]

\* The files the generator scripts write: a header row, then one row per sol
\* (and hour) in loop order.
SolarCsv == Csv(<<"Sol", "Solar Radiation">>, "solar_radiation_make", 0)
SolarRow(sol) == <<F(sol, 0), make_solar_radiation(sol)>>

TemperatureCsv == Csv(<<"Sol", "Hour", "Temperature">>, "temperature_make", 0)
TemperatureRow(sol, hour) == <<F(sol, 0), F(hour, 0), make_temperature(sol, hour)>>

DustCsv(p) == Csv(<<"Sol", "Dust Opacity">>, "dust_storm_make", p)
DustRow(p, sol) == <<F(sol, 0), make_dust_storm(sol, NoiseDraw(p, sol))>>

\* Files supplied from outside the repository (the source's comments call
\* them NASA data), with the columns plant_simulation_3.py reads.  Set 1
\* covers the Martian year, the others only its first sols.
MaxEnv == 1
EnvDays(c) ==
    IF c = 1 THEN <<0, 167, 334, 501, 668>> ELSE <<0, 25 * c>>
EnvSolar(c) ==
    IF c = 1 THEN <<F(426, 0), F(717, 0), F(426, 0), F(136, 0), F(426, 0)>>
    ELSE <<F(426, 0), F(426 + 50 * c, 0)>>
EnvTemp(c) ==
    IF c = 1 THEN <<F(-54, 0), F(-20, 0), F(-54, 0), F(-90, 0), F(-54, 0)>>
    ELSE <<F(-54, 0), F(-54 + 5 * c, 0)>>
EnvDust(c) ==
    IF c = 1 THEN <<F(496, -2), F(99, -1), F(496, -2), F(1, -2), F(496, -2)>>
    ELSE <<F(5, 0), F(5 + c, 0)>>
ExternalRows(days, values) ==
    [k \in 1 .. Len(days) |-> <<F(days[k], 0), values[k]>>]
ExternalFiles(c) ==
    [solar |-> Csv(<<"Day", "Solar_Radiation">>, "external solar", c),
     temp |-> Csv(<<"Day", "Temperature">>, "external temp", c),
     dust |-> Csv(<<"Day", "Dust_Opacity">>, "external dust", c)]
NoFiles == [solar |-> NoFile, temp |-> NoFile, dust |-> NoFile]

\* The data rows of a file.
Rows(file) ==
    CASE file.writer = "solar_radiation_make" ->
            [k \in 1 .. SOLAR_YEAR |-> SolarRow(k - 1)]
      [] file.writer = "temperature_make" ->
            [k \in 1 .. TEMP_YEAR * 24 |-> TemperatureRow((k - 1) \div 24, (k - 1) % 24)]
      [] file.writer = "dust_storm_make" ->
            [k \in 1 .. DUST_YEAR |-> DustRow(file.arg, k - 1)]
      [] file.writer = "external solar" -> ExternalRows(EnvDays(file.arg), EnvSolar(file.arg))
      [] file.writer = "external temp" -> ExternalRows(EnvDays(file.arg), EnvTemp(file.arg))
      [] file.writer = "external dust" -> ExternalRows(EnvDays(file.arg), EnvDust(file.arg))
      [] OTHER -> <<>>

(***************************************************************************)
(* The environment lookups of plant_simulation_3.py                        *)
(***************************************************************************)

\* The outcome of a call: a value, or the exception it raised.
Value(v) == [err |-> "none", val |-> v]
Raise(e) == [err |-> e, val |-> NaN]

ColumnIndex(file, name) ==
    IF \E c \in 1 .. Len(file.header) : file.header[c] = name
    THEN CHOOSE c \in 1 .. Len(file.header) : file.header[c] = name
    ELSE 0

\* The line through samples hi - 1 and hi, at x.
Line(xs, ys, hi, x) ==
    FAdd(FMul(FDiv(FSub(ys[hi], ys[hi - 1]), FSub(xs[hi], xs[hi - 1])),
              FSub(x, xs[hi - 1])),
         ys[hi - 1])

\* np.searchsorted(xs, x): the samples below x, plus one (1-based).
searchsorted(xs, x) == Cardinality({k \in 1 .. Len(xs) : FLt(xs[k], x)}) + 1

\* An interpolator that clamps a point outside the samples to the nearest
\* sample's value instead of raising.
interp1d_clamped(xs, ys, x) ==
    IF FLt(x, xs[1]) THEN Value(ys[1])
    ELSE IF FLt(xs[Len(xs)], x) THEN Value(ys[Len(ys)])
    ELSE IF searchsorted(xs, x) < 2 THEN Value(Line(xs, ys, 2, x))
    ELSE Value(Line(xs, ys, searchsorted(xs, x), x))

\* scipy's interp1d(xs, ys, kind="linear")(x): bounds_error is on by default,
\* so a point outside [xs[1], xs[n]] raises ValueError; inside, the line
\* through the samples at searchsorted(xs, x) - 1 and searchsorted(xs, x).
interp1d(xs, ys, x) ==
    IF FLt(x, xs[1]) \/ FLt(xs[Len(xs)], x) THEN Raise("OutOfRange")
    ELSE IF searchsorted(xs, x) < 2 THEN Value(Line(xs, ys, 2, x))
    ELSE Value(Line(xs, ys, searchsorted(xs, x), x))

\* df[key] and df[value] of the rows, interpolated at x.
InterpolateColumns(rows, kc, vc, x) ==
    IF kc = 0 \/ vc = 0 THEN Raise("KeyError")
    ELSE interp1d([r \in 1 .. Len(rows) |-> rows[r][kc]],
                  [r \in 1 .. Len(rows) |-> rows[r][vc]], x)

\* pd.read_csv(file), then interp1d(df[key], df[value], kind="linear")(x).
ReadAndInterpolate(file, key, value, x) ==
    IF ~file.exists THEN Raise("FileNotFound")
    ELSE IF ColumnIndex(file, key) = 0 \/ ColumnIndex(file, value) = 0 THEN Raise("KeyError")
    ELSE InterpolateColumns(Rows(file), ColumnIndex(file, key), ColumnIndex(file, value), x)

solar_radiation(fs, day) ==
    ReadAndInterpolate(fs.solar, "Day", "Solar_Radiation", day)

\* dtv and dft of temperature(day, hour).
DiurnalVariation ==
    FMul(FMul(F(20, 0), FCosTurns(FDiv(LATITUDE, F(360, 0)))),
         FExp(FDiv(FNeg(ELEVATION), F(10, 0))))
DiurnalFactor(hour) == FCosTurns(FDiv(FAdd(hour, TIME_ZONE), F(24, 0)))

PlusDiurnal(f_temp, hour) ==
    IF f_temp.err # "none" THEN f_temp
    ELSE Value(FAdd(f_temp.val, FMul(DiurnalVariation, DiurnalFactor(hour))))

temperature(fs, day, hour) ==
    PlusDiurnal(ReadAndInterpolate(fs.temp, "Day", "Temperature", day), hour)

dust_storm(fs, day) ==
    ReadAndInterpolate(fs.dust, "Day", "Dust_Opacity", day)

(***************************************************************************)
(* The soil samples (module level of both simulation scripts)              *)
(***************************************************************************)

\* The uniform variates in [0, 1) of MT19937 seeded with 42, times 10^4.
Seed42 ==
    <<3745, 9507, 7320, 5987, 1560, 1560, 581,
      8662, 6011, 7081, 206, 9699, 8324, 2123,
      1818, 1834, 3042, 5248, 4319, 2912, 6119,
      1395, 2921, 3664, 4561, 7852, 1997, 5142>>

SoilLow == <<F(55, -1), F(50, 0), F(10, 0), F(50, 0)>>
SoilHigh == <<F(85, -1), F(250, 0), F(90, 0), F(150, 0)>>
Tolerance == <<PH_TOLERANCE, N_TOLERANCE, P_TOLERANCE, K_TOLERANCE>>

\* The variate the generator yields at position pos after seeding.  Sample 0
\* is the stream of seed 42; the soil sample is an input of simulate_growth,
\* and samples 1, 2, ... are other points of np.random.uniform's range:
\* sample 1 the one that puts every soil value at the crop's optimum.
MaxSample == 1
Variate(sample, pos) ==
    CASE sample = 0 ->
            F(Seed42[(IF pos < 28 THEN pos ELSE (pos * 5 + 3) % 28) + 1], -4)
      [] sample = 1 ->
            IF pos < 28
            THEN LET a == (pos \div NUM_CROPS) + 1
                     i == (pos % NUM_CROPS) + 1
                 IN  FDiv(FSub(Tolerance[a][i], SoilLow[a]), FSub(SoilHigh[a], SoilLow[a]))
            ELSE F(((pos * 37) % 100), -2)
      [] OTHER -> F(((pos * 37 + sample * 11) % 100), -2)

\* np.random.uniform(low, high, size=NUM_CROPS), drawing from position pos.
uniform(sample, pos, low, high) ==
    [i \in Crops |-> FAdd(low, FMul(FSub(high, low), Variate(sample, pos + i)))]

\* A seeding that leaves the generator where the previous draws left it.
seed_kept(rng) == rng

\* np.random.seed(42) and the four draws that follow it; rng is the
\* generator's position when the lines run.
seed(rng) == 0
SampleSoil(sample, rng) ==
    LET p == seed(rng)
    IN  [ph |-> uniform(sample, p, SoilLow[1], SoilHigh[1]),
         n |-> uniform(sample, p + NUM_CROPS, SoilLow[2], SoilHigh[2]),
         p |-> uniform(sample, p + 2 * NUM_CROPS, SoilLow[3], SoilHigh[3]),
         k |-> uniform(sample, p + 3 * NUM_CROPS, SoilLow[4], SoilHigh[4])]

(***************************************************************************)
(* simulate_growth                                                         *)
(***************************************************************************)

\* The date arithmetic of plant_simulation_3.py for loop index j.  Time is
\* counted in millionths of a day from 2020-03-23 00:00.
ElapsedMicroDays(j) == 500000 + j * 1027491 + ((j * 2517) \div 10000)

\* A day count taken from March 23 of the year after the current date's.
DaysSinceMarch23_next_year(d) == d - 365

\* (current_date.date() - dt.date(current_date.year, 3, 23)).days: date d
\* days after 2020-03-23 falls in 2020 up to d = 283, in 2021 up to d = 648.
DaysSinceMarch23(d) ==
    IF d < 284 THEN d ELSE IF d < 649 THEN d - 365 ELSE d - 730

current_day(j) ==
    FMul(F(DaysSinceMarch23(ElapsedMicroDays(j) \div 1000000), 0), SOL_FACTOR)

current_hour(j) ==
    LET secs == ((ElapsedMicroDays(j) % 1000000) * 864) \div 10000
        hour == secs \div 3600
        minute == (secs \div 60) % 60
        second == secs % 60
    IN  FAdd(F(hour, 0),
             FDiv(FAdd(F(minute, 0), FDiv(F(second, 0), F(60, 0))), F(60, 0)))

\* Lines 145-148 of plant_simulation_3.py: the three environment effects of
\* crop i from the outcomes of the lookups, or the first exception raised, in
\* evaluation order.
Effects(solar, dust, temp, i) ==
    IF solar.err # "none" THEN Raise(solar.err)
    ELSE IF dust.err # "none" THEN Raise(dust.err)
    ELSE IF temp.err # "none" THEN Raise(temp.err)
    ELSE [err |-> "none", val |-> NaN,
          solar_effect |->
              FMul(FDiv(solar.val, F(SOLAR_MAX, 0)),
                   growth_factor(FDiv(solar.val, FAdd(F(1, 0), dust.val)),
                                 SOLAR_FACTOR[i + 1])),
          temp_effect |-> growth_factor(temp.val, TEMP_FACTOR[i + 1]),
          dust_effect |->
              growth_factor(FDiv(F(1, 0), FAdd(F(1, 0), dust.val)),
                            DUST_FACTOR[i + 1])]

EnvEffects(fs, i, j) ==
    Effects(solar_radiation(fs, current_day(j)),
            dust_storm(fs, current_day(j)),
            temperature(fs, current_day(j), current_hour(j)),
            i)

\* The four soil factors of crop i, multiplied onto v left to right.
TimesSoilFactors(v, so, i) ==
    FMul(FMul(FMul(FMul(v, growth_factor(so.ph[i], PH_TOLERANCE[i + 1])),
                   growth_factor(so.n[i], N_TOLERANCE[i + 1])),
              growth_factor(so.p[i], P_TOLERANCE[i + 1])),
         growth_factor(so.k[i], K_TOLERANCE[i + 1]))

TimesEnvEffects(v, eff) ==
    FMul(FMul(FMul(v, eff.solar_effect), eff.temp_effect), eff.dust_effect)

\* A biomass assignment that reads the cell being written instead of the
\* cell of the day before.
NewBiomass3_current(bm, so, eff, i, j) ==
    TimesEnvEffects(
        TimesSoilFactors(logistic_growth(bm[i][j], MAX_BIOMASS[i + 1]), so, i), eff)

\* A height assignment whose logistic term uses the height's own initial
\* value INIT_HEIGHT where the code uses INIT_BIOMASS.
NewHeight3_own_init(ht, so, eff, i, j) ==
    TimesEnvEffects(
        TimesSoilFactors(
            FDiv(FMul(MAX_HEIGHT[i + 1], ht[i][j - 1]),
                 FSub(FAdd(ht[i][j - 1], MAX_HEIGHT[i + 1]),
                      FDiv(FMul(ht[i][j - 1], INIT_HEIGHT), MAX_HEIGHT[i + 1]))),
            so, i), eff)

\* The right-hand sides of the two assignments of the loop body.
\* plant_simulation_2.py, lines 50-59:
NewBiomass2(bm, so, i, j) ==
    TimesSoilFactors(logistic_growth(bm[i][j - 1], MAX_BIOMASS[i + 1]), so, i)
NewHeight2(ht, so, i, j) ==
    TimesSoilFactors(logistic_growth(ht[i][j - 1], MAX_HEIGHT[i + 1]), so, i)
\* plant_simulation_3.py, lines 151-162:
NewBiomass3(bm, so, eff, i, j) ==
    TimesEnvEffects(
        TimesSoilFactors(logistic_growth(bm[i][j - 1], MAX_BIOMASS[i + 1]), so, i), eff)
NewHeight3(ht, so, eff, i, j) ==
    TimesEnvEffects(
        TimesSoilFactors(logistic_growth(ht[i][j - 1], MAX_HEIGHT[i + 1]), so, i), eff)

\* np.zeros((NUM_CROPS, NUM_DAYS)) followed by matrix[:, 0] = init.
InitialMatrix(init) == [i \in Crops |-> [j \in Days |-> IF j = 0 THEN init ELSE Zero]]

(***************************************************************************)
(* plant_simulation.py: the resource-depletion simulation                  *)
(***************************************************************************)

\* The daily increments of plant_simulation.py are a few millionths of the
\* values they are added to, so its floats are modelled with eight
\* significant decimal digits: <<m, e>> is m * 10^e with 10^7 <= |m| < 10^8,
\* and <<0, 0>> is 0.  No operation of the script overflows or divides by 0.
WideLow == 10000000
WideHigh == 100000000
WideHalf == 10000

RECURSIVE WNorm(_, _), LongDiv(_, _, _, _)
\* The wide float nearest to m * 10^e.
WNorm(m, e) ==
    IF m = 0 THEN <<0, 0>>
    ELSE IF Abs(m) >= WideHigh THEN WNorm(Sgn(m) * RoundDiv(Abs(m), 10), e + 1)
    ELSE IF Abs(m) < WideLow THEN WNorm(m * 10, e - 1)
    ELSE <<m, e>>

\* A decimal literal m * 10^e of plant_simulation.py.
W(m, e) == WNorm(m, e)

WNeg(a) == <<-a[1], a[2]>>

\* The sum of hi and lo, the exponent of hi not below that of lo: lo is
\* rounded to one digit more than hi holds.
WAddAligned(hi, lo) ==
    IF hi[2] - lo[2] > 8 THEN hi
    ELSE WNorm(hi[1] * 10 + Sgn(lo[1]) * RoundDiv(Abs(lo[1]) * 10, 10 ^ (hi[2] - lo[2])),
               hi[2] - 1)

WAdd(a, b) ==
    IF a[1] = 0 THEN b
    ELSE IF b[1] = 0 THEN a
    ELSE IF a[2] >= b[2] THEN WAddAligned(a, b)
    ELSE WAddAligned(b, a)

WSub(a, b) == WAdd(a, WNeg(b))

\* The leading eight digits of the product of the mantissas x and y, from
\* their halves of four digits.
MulHigh(xh, xl, yh, yl) ==
    xh * yh + ((xh * yl + xl * yh + ((xl * yl) \div WideHalf)) \div WideHalf)

WMul(a, b) ==
    IF a[1] = 0 \/ b[1] = 0 THEN <<0, 0>>
    ELSE WNorm(Sgn(a[1]) * Sgn(b[1])
                 * MulHigh(Abs(a[1]) \div WideHalf, Abs(a[1]) % WideHalf,
                           Abs(b[1]) \div WideHalf, Abs(b[1]) % WideHalf),
               a[2] + b[2] + 8)

\* n further digits of the quotient q so far, remainder r, divisor d.
LongDiv(q, r, d, n) ==
    IF n = 0 THEN q
    ELSE LongDiv(q * 10 + ((r * 10) \div d), (r * 10) % d, d, n - 1)

\* a / b for b # 0.
WDiv(a, b) ==
    IF a[1] = 0 THEN <<0, 0>>
    ELSE WNorm(Sgn(a[1]) * Sgn(b[1])
                 * LongDiv(Abs(a[1]) \div Abs(b[1]), Abs(a[1]) % Abs(b[1]), Abs(b[1]), 8),
               a[2] - b[2] - 8)

WLt(a, b) == WSub(a, b)[1] < 0
WLe(a, b) == WSub(a, b)[1] <= 0

\* Lines 6-14 of plant_simulation.py.
MARS_GRAVITY == W(3711, -3)
MARS_ATMOSPHERE == W(6, -3)
MARS_TEMPERATURE == W(-63, 0)
INITIAL_WATER_CONTENT == W(5, -2)
INITIAL_NUTRIENT_CONTENT == W(2, -2)
SUNLIGHT_INTENSITY == W(590, 0)
PLANT_GROWTH_RATE == W(5, -3)
PLANT_WATER_USE == W(5, -4)
PLANT_NUTRIENT_USE == W(5, -5)

\* Plant.__init__(name, mass).
Plant(name, mass) == [name |-> name, mass |-> mass, height |-> W(1, -1), alive |-> TRUE]

\* The local growth_factor of Plant.grow.
grow_factor ==
    WMul(WDiv(WMul(WMul(WDiv(MARS_GRAVITY, W(981, -2)), WDiv(MARS_ATMOSPHERE, W(1, 0))),
                   WAdd(MARS_TEMPERATURE, W(273, 0))),
              W(300, 0)),
         WDiv(SUNLIGHT_INTENSITY, W(1000, 0)))

\* Plant.grow: self.mass += self.mass * RATE * growth_factor, and height.
grow(self) ==
    [self EXCEPT !.mass = WAdd(@, WMul(WMul(@, PLANT_GROWTH_RATE), grow_factor)),
                 !.height = WAdd(@, WMul(WMul(@, PLANT_GROWTH_RATE), grow_factor))]

\* The two assignments to the globals in Plant.use_resources.
WaterAfter(self, water) == WSub(water, WDiv(WMul(self.mass, PLANT_WATER_USE), W(1000, 0)))
NutrientAfter(self, nutrient) ==
    WSub(nutrient, WDiv(WMul(self.mass, PLANT_NUTRIENT_USE), W(1000, 0)))

\* A survival check that looks at the nutrient content only.
use_resources_nutrient_only(self, water, nutrient) ==
    IF nutrient[1] < 0 THEN [self EXCEPT !.alive = FALSE] ELSE self

\* The plant after Plant.use_resources, given the globals after the
\* assignments.
use_resources(self, water, nutrient) ==
    IF water[1] < 0 \/ nutrient[1] < 0 THEN [self EXCEPT !.alive = FALSE] ELSE self

\* The list of plants the script creates (list 0), and lists of plants
\* 10^4 * c times as heavy, which use the water up within the 100 days.
MaxHeavy == 1
PlantList(c) ==
    IF c = 0
    THEN <<Plant("Potato", W(1, -1)), Plant("Tomato", W(5, -2)),
           Plant("Cactus", W(2, -2)), Plant("lettuce", W(3, -1))>>
    ELSE <<Plant("Potato", W(c, 3)), Plant("Tomato", W(5 * c, 2)),
           Plant("Cactus", W(2 * c, 2)), Plant("lettuce", W(3 * c, 3))>>

\* for day in range(1, 101).
LAST_DAY == 100

(***************************************************************************)
(* The state of a run                                                      *)
(***************************************************************************)

VARIABLES
    script,     \* 2: plant_simulation_2.py, 3: plant_simulation_3.py
    sample,     \* which soil sample the seeded generator yields
    rng,        \* position of the random generator's stream
    soil,       \* soil_ph, soil_n, soil_p, soil_k
    files,      \* solar_radiation.csv, temperature.csv, dust_storm.csv
    pc,         \* "start", "loop" (inside simulate_growth), "done", "failed"
    run,        \* number of executions of the script started
    i, j,       \* the loop indices of simulate_growth
    biomass, height,
    err,        \* the exception that ended the run
    writes,     \* history: how often the loop assigned each cell
    first,      \* history: how the first execution ended
    call, prev, \* the last call of a function on its own, and the
                \* growth_factor call just before it, if any
    plants,             \* plant_simulation.py: the list of Plant objects
    WATER_CONTENT,      \* and its two globals
    NUTRIENT_CONTENT,
    today, plant_idx,   \* the loop variables day and plant (as an index)
    ppc                 \* "off", or the call that comes next: "grow", "use", "end"

plantVars == <<plants, WATER_CONTENT, NUTRIENT_CONTENT, today, plant_idx, ppc>>

vars == <<script, sample, rng, soil, files, pc, run, i, j, biomass, height,
          err, writes, first, call, prev, plantVars>>

\* plant_simulation.py not run.
PlantsOff ==
    /\ plants = <<>>
    /\ WATER_CONTENT = INITIAL_WATER_CONTENT
    /\ NUTRIENT_CONTENT = INITIAL_NUTRIENT_CONTENT
    /\ today = 0
    /\ plant_idx = 0
    /\ ppc = "off"

\* Executions of the script in one behaviour.
MaxRuns == 2

NoCall == [fn |-> "none"]
NoSoil == [ph |-> <<>>, n |-> <<>>, p |-> <<>>, k |-> <<>>]
NoWrites == [c \in Crops |-> [d \in Days |-> 0]]
Outcome == [pc |-> pc, err |-> err, biomass |-> biomass, height |-> height]

Init ==
    /\ script \in {2, 3}
    /\ sample \in 0 .. MaxSample
    /\ rng = 0
    /\ soil = NoSoil
    /\ files \in IF script = 2 THEN {NoFiles}
                 ELSE {NoFiles} \cup {ExternalFiles(c) : c \in 1 .. MaxEnv}
    /\ pc = "start"
    /\ run = 0
    /\ i = 0
    /\ j = 0
    /\ biomass = <<>>
    /\ height = <<>>
    /\ err = "none"
    /\ writes = NoWrites
    /\ first = <<>>
    /\ call = NoCall
    /\ prev = NoCall
    /\ PlantsOff

\* The generator scripts, run before plant_simulation_3.py.
RunSolarMake ==
    /\ pc = "start" /\ script = 3
    /\ files.solar # SolarCsv
    /\ files' = [files EXCEPT !.solar = SolarCsv]
    /\ UNCHANGED <<script, sample, rng, soil, pc, run, i, j, biomass, height,
                   err, writes, first, call, prev, plantVars>>

RunTemperatureMake ==
    /\ pc = "start" /\ script = 3
    /\ files.temp # TemperatureCsv
    /\ files' = [files EXCEPT !.temp = TemperatureCsv]
    /\ UNCHANGED <<script, sample, rng, soil, pc, run, i, j, biomass, height,
                   err, writes, first, call, prev, plantVars>>

RunDustStormMake ==
    /\ pc = "start" /\ script = 3
    /\ \E p \in 0 .. MaxNoise :
          /\ files.dust # DustCsv(p)
          /\ files' = [files EXCEPT !.dust = DustCsv(p)]
    /\ UNCHANGED <<script, sample, rng, soil, pc, run, i, j, biomass, height,
                   err, writes, first, call, prev, plantVars>>

\* An execution of the simulation script up to the loops of simulate_growth:
\* the soil samples are drawn and the matrices created.
RunScript ==
    /\ pc \in {"start", "done", "failed"}
    /\ run < MaxRuns
    /\ run' = run + 1
    /\ first' = IF run = 1 THEN Outcome ELSE first
    /\ soil' = SampleSoil(sample, rng)
    /\ rng' = seed(rng) + 4 * NUM_CROPS
    /\ biomass' = InitialMatrix(INIT_BIOMASS)
    /\ height' = InitialMatrix(INIT_HEIGHT)
    /\ writes' = NoWrites
    /\ i' = 0
    /\ j' = 1
    /\ err' = "none"
    /\ pc' = "loop"
    /\ UNCHANGED <<script, sample, files, call, prev, plantVars>>

\* A day loop that steps by two days where it can.
Advance_skipping ==
    IF j < NUM_DAYS - 2 THEN i' = i /\ j' = j + 2 /\ pc' = pc
    ELSE IF i < NUM_CROPS - 1 THEN i' = i + 1 /\ j' = 1 /\ pc' = pc
    ELSE i' = i /\ j' = j /\ pc' = "done"

\* for i in range(NUM_CROPS): for j in range(1, NUM_DAYS): the next indices.
Advance ==
    IF j < NUM_DAYS - 1 THEN i' = i /\ j' = j + 1 /\ pc' = pc
    ELSE IF i < NUM_CROPS - 1 THEN i' = i + 1 /\ j' = 1 /\ pc' = pc
    ELSE i' = i /\ j' = j /\ pc' = "done"

\* One iteration of the loop body of plant_simulation_2.py.
GrowthStep2 ==
    /\ pc = "loop" /\ script = 2
    /\ biomass' = [biomass EXCEPT ![i][j] = NewBiomass2(biomass, soil, i, j)]
    /\ height' = [height EXCEPT ![i][j] = NewHeight2(height, soil, i, j)]
    /\ writes' = [writes EXCEPT ![i][j] = @ + 1]
    /\ Advance
    /\ UNCHANGED <<script, sample, rng, soil, files, run, err, first, call, prev, plantVars>>

\* One iteration of the loop body of plant_simulation_3.py with the
\* environment effects eff; an exception of a lookup ends the run.
GrowthStep3With(eff) ==
    IF eff.err # "none"
    THEN /\ pc' = "failed"
         /\ err' = eff.err
         /\ UNCHANGED <<i, j, biomass, height, writes>>
    ELSE /\ biomass' = [biomass EXCEPT ![i][j] = NewBiomass3(biomass, soil, eff, i, j)]
         /\ height' = [height EXCEPT ![i][j] = NewHeight3(height, soil, eff, i, j)]
         /\ writes' = [writes EXCEPT ![i][j] = @ + 1]
         /\ Advance
         /\ err' = err

GrowthStep3 ==
    /\ pc = "loop" /\ script = 3
    /\ GrowthStep3With(EnvEffects(files, i, j))
    /\ UNCHANGED <<script, sample, rng, soil, files, run, first, call, prev, plantVars>>

Next ==
    \/ RunSolarMake
    \/ RunTemperatureMake
    \/ RunDustStormMake
    \/ RunScript
    \/ GrowthStep2
    \/ GrowthStep3

Spec == Init /\ [][Next]_vars

(***************************************************************************)
(* Properties of the simulation runs (under Spec)                          *)
(***************************************************************************)

\* The step about to be taken assigns cell [i][j].
Assigns == pc = "loop" /\ writes'[i][j] = writes[i][j] + 1

\* The four soil factors of crop c.
SoilFactors(c) ==
    <<growth_factor(soil.ph[c], PH_TOLERANCE[c + 1]),
      growth_factor(soil.n[c], N_TOLERANCE[c + 1]),
      growth_factor(soil.p[c], P_TOLERANCE[c + 1]),
      growth_factor(soil.k[c], K_TOLERANCE[c + 1])>>

\* C1: when every multiplicative factor is 1 (in plant_simulation_2.py the
\* multiplier consists of the four soil factors), each written cell of the
\* crop's biomass row is no smaller than the cell of the day before, and no
\* farther from MAX_BIOMASS than it.
C1_MonotoneTowardCapacity ==
    \A c \in Crops :
        (script = 2 /\ pc \in {"loop", "done"} /\ SoilFactors(c) = <<F(1, 0), F(1, 0), F(1, 0), F(1, 0)>>)
        => \A d \in 1 .. NUM_DAYS - 1 :
              writes[c][d] = 1 =>
                 /\ FLe(biomass[c][d - 1], biomass[c][d])
                 /\ FLe(FSub(MAX_BIOMASS[c + 1], biomass[c][d]),
                        FSub(MAX_BIOMASS[c + 1], biomass[c][d - 1]))

\* The product of the multiplicative factors applied to crop c on day d.
FactorProduct(c, d) ==
    IF script = 2 THEN TimesSoilFactors(F(1, 0), soil, c)
    ELSE TimesEnvEffects(TimesSoilFactors(F(1, 0), soil, c), EnvEffects(files, c, d))

InCapacity(v, cap) == FLt(Zero, v) /\ FLe(v, cap)
UpToCapacity(v, cap) == FLe(Zero, v) /\ FLe(v, cap)

\* C2 as stated: a step from a cell in (0, MAX] with a factor product in
\* (0, 1] writes a value in (0, MAX], for biomass and for height.
C2_WithinCapacity ==
    [][ (Assigns /\ InCapacity(FactorProduct(i, j), F(1, 0))) =>
           /\ InCapacity(biomass[i][j - 1], MAX_BIOMASS[i + 1])
                 => InCapacity(biomass'[i][j], MAX_BIOMASS[i + 1])
           /\ InCapacity(height[i][j - 1], MAX_HEIGHT[i + 1])
                 => InCapacity(height'[i][j], MAX_HEIGHT[i + 1]) ]_vars

\* C2 amended: a step from a cell in (0, MAX] with a factor product in
\* (0, 1] writes a value in [0, MAX], for biomass and for height: the
\* capacity is never exceeded, and the value is 0 when the product underflows.
C2_NeverAboveCapacity ==
    [][ (Assigns /\ InCapacity(FactorProduct(i, j), F(1, 0))) =>
           /\ InCapacity(biomass[i][j - 1], MAX_BIOMASS[i + 1])
                 => UpToCapacity(biomass'[i][j], MAX_BIOMASS[i + 1])
           /\ InCapacity(height[i][j - 1], MAX_HEIGHT[i + 1])
                 => UpToCapacity(height'[i][j], MAX_HEIGHT[i + 1]) ]_vars

\* A finished run of plant_simulation_3.py whose first step had a factor
\* product in (0, 1] and wrote a biomass in (0, MAX_BIOMASS], and in which a
\* later cell of the row is 0.
C2_Witness ==
    /\ script = 3 /\ pc = "done"
    /\ InCapacity(FactorProduct(0, 1), F(1, 0))
    /\ InCapacity(biomass[0][1], MAX_BIOMASS[1])
    /\ biomass[0][NUM_DAYS - 1] = Zero

\* The cells and soil values whose change must not matter to cell [c][d]:
\* the cell itself, the next one and the last one of row c, and the cells of
\* days d - 1 and d and the soil values of the two neighbouring crops.
LaterCells(c, d) == {<<c, e>> : e \in {d, d + 1, NUM_DAYS - 1} \cap Days}
OtherCrops(c) == {(c + 1) % NUM_CROPS, (c + NUM_CROPS - 1) % NUM_CROPS}
OtherCells(c, d) == {<<k, e>> : k \in OtherCrops(c), e \in {d - 1, d}}

Changed(m, cell) == [m EXCEPT ![cell[1]][cell[2]] = FAdd(@, F(1, 0))]
ChangedSoil(so, k) ==
    [ph |-> [so.ph EXCEPT ![k] = FAdd(@, F(1, 0))],
     n |-> [so.n EXCEPT ![k] = FAdd(@, F(1, 0))],
     p |-> [so.p EXCEPT ![k] = FAdd(@, F(1, 0))],
     k |-> [so.k EXCEPT ![k] = FAdd(@, F(1, 0))]]

\* The pair the loop body assigns to cell [i][j], from matrices bm and ht,
\* soil so and the environment effects eff of the day.
Assigned(bm, ht, so, eff) ==
    IF script = 2
    THEN <<NewBiomass2(bm, so, i, j), NewHeight2(ht, so, i, j)>>
    ELSE <<NewBiomass3(bm, so, eff, i, j), NewHeight3(ht, so, eff, i, j)>>

\* The pair new is what the loop body assigns with any one of the cells or
\* soil values changed.
Unaffected(new, eff) ==
    /\ \A cell \in LaterCells(i, j) \cup OtherCells(i, j) :
          new = Assigned(Changed(biomass, cell), Changed(height, cell), soil, eff)
    /\ \A k \in OtherCrops(i) :
          new = Assigned(biomass, height, ChangedSoil(soil, k), eff)

\* C3: the values a step assigns to biomass[i][j] and height[i][j] are the
\* ones it would assign with a later cell of row i changed, or with a cell or
\* the soil values of another crop changed.
C3_ForwardOnly ==
    [][ Assigns =>
           Unaffected(<<biomass'[i][j], height'[i][j]>>,
                      IF script = 2 THEN Raise("none") ELSE EnvEffects(files, i, j)) ]_vars

\* A run has assigned a cell of a crop between two others, not on the first
\* day, and the cells and soil values around it differ from it after change.
C3_Witness ==
    /\ pc = "loop" /\ i = 1 /\ j = 3
    /\ writes[1][2] = 1
    /\ Changed(biomass, <<1, 3>>) # biomass
    /\ ChangedSoil(soil, 2) # soil

\* C4: a second execution started from the same soil sample, parameter
\* tables and environment files ends as the first one did, with the same
\* biomass and height matrices, cell for cell.
C4_Deterministic ==
    (run = MaxRuns /\ pc \in {"done", "failed"}) => Outcome = first

\* Two executions have both returned matrices, the same ones.
C4_Witness ==
    /\ run = MaxRuns /\ pc = "done"
    /\ first.pc = "done"
    /\ first.biomass = biomass /\ first.height = height
    /\ writes[NUM_CROPS - 1][NUM_DAYS - 1] = 1

\* The three files are the ones the generator scripts write.
Generated ==
    /\ files.solar = SolarCsv
    /\ files.temp = TemperatureCsv
    /\ \E p \in 0 .. MaxNoise : files.dust = DustCsv(p)

\* The rows are in strictly ascending order of their first nkeys columns,
\* so that no sample point has two rows.
Ascending(rows, nkeys) ==
    \A r \in 2 .. Len(rows) :
        \/ FLt(rows[r - 1][1], rows[r][1])
        \/ nkeys = 2 /\ rows[r - 1][1] = rows[r][1] /\ FLt(rows[r - 1][2], rows[r][2])

\* C9: the generators' files have the key and value columns the lookups
\* read, no run on them fails, and their rows are sorted ascending with one
\* row per sample point of sols 0..668.
C9_GeneratorContract ==
    Generated =>
        /\ ColumnIndex(files.solar, "Day") # 0
        /\ ColumnIndex(files.solar, "Solar_Radiation") # 0
        /\ ColumnIndex(files.temp, "Day") # 0
        /\ ColumnIndex(files.temp, "Temperature") # 0
        /\ ColumnIndex(files.dust, "Day") # 0
        /\ ColumnIndex(files.dust, "Dust_Opacity") # 0
        /\ pc # "failed"
        /\ Len(Rows(files.solar)) = SOLAR_YEAR /\ Ascending(Rows(files.solar), 1)
        /\ Len(Rows(files.dust)) = DUST_YEAR /\ Ascending(Rows(files.dust), 1)
        /\ Len(Rows(files.temp)) = 24 * TEMP_YEAR /\ Ascending(Rows(files.temp), 2)

\* C10: inside and after simulate_growth both matrices have NUM_CROPS rows
\* of NUM_DAYS cells; column 0 holds INIT_BIOMASS and INIT_HEIGHT; no cell is
\* assigned twice and column 0 never; the assigned cells of a row are its
\* first days, so the cell of the day before is assigned when a cell is; the
\* rows before the current one are complete; and when simulate_growth
\* returns every cell of days 1..NUM_DAYS-1 has been assigned once.
C10_WrittenOnceInOrder ==
    pc \in {"loop", "done", "failed"} =>
        /\ DOMAIN biomass = Crops /\ DOMAIN height = Crops
        /\ \A c \in Crops :
              /\ DOMAIN biomass[c] = Days /\ DOMAIN height[c] = Days
              /\ biomass[c][0] = INIT_BIOMASS /\ height[c][0] = INIT_HEIGHT
              /\ writes[c][0] = 0
              /\ \A d \in 1 .. NUM_DAYS - 1 :
                    /\ writes[c][d] \in {0, 1}
                    /\ (writes[c][d] = 1 /\ d > 1) => writes[c][d - 1] = 1
                    /\ (writes[c][d] = 0) => (biomass[c][d] = Zero /\ height[c][d] = Zero)
                    /\ (pc = "loop" /\ c < i) => writes[c][d] = 1
                    /\ (pc = "loop" /\ c = i) => (writes[c][d] = 1 <=> d < j)
                    /\ (pc = "loop" /\ c > i) => writes[c][d] = 0
                    /\ pc = "done" => writes[c][d] = 1

\* simulate_growth has returned with the last cell of the last crop assigned.
C10_Witness ==
    /\ pc = "done"
    /\ writes[NUM_CROPS - 1][NUM_DAYS - 1] = 1
    /\ writes[0][1] = 1

\* k*x / (x + k - x*INIT/k) with INIT the biomass constant INIT_BIOMASS.
LogisticInitBiomass(x, k) ==
    FDiv(FMul(k, x), FSub(FAdd(x, k), FDiv(FMul(x, INIT_BIOMASS), k)))

\* v times the four soil factors of crop c and the three effects of eff,
\* multiplied on from left to right.
TimesSeven(v, c, eff) ==
    FMul(FMul(FMul(FMul(FMul(FMul(FMul(v,
        growth_factor(soil.ph[c], PH_TOLERANCE[c + 1])),
        growth_factor(soil.n[c], N_TOLERANCE[c + 1])),
        growth_factor(soil.p[c], P_TOLERANCE[c + 1])),
        growth_factor(soil.k[c], K_TOLERANCE[c + 1])),
        eff.solar_effect), eff.temp_effect), eff.dust_effect)

SevenFactorStep(eff) ==
    /\ biomass'[i][j] = TimesSeven(LogisticInitBiomass(biomass[i][j - 1], MAX_BIOMASS[i + 1]), i, eff)
    /\ height'[i][j] = TimesSeven(LogisticInitBiomass(height[i][j - 1], MAX_HEIGHT[i + 1]), i, eff)

\* C11: every step of plant_simulation_3.py assigns to biomass[i][j] the
\* logistic term of biomass[i][j-1] and MAX_BIOMASS[i] times the four soil
\* factors and the three effects of day j, and to height[i][j] the same with
\* height[i][j-1] and MAX_HEIGHT[i]: the same multiplier and the same logistic
\* formula, with INIT_BIOMASS in it for height as well.
C11_SevenFactorFormula ==
    [][ (Assigns /\ script = 3) => SevenFactorStep(EnvEffects(files, i, j)) ]_vars

\* plant_simulation_3.py has assigned the first cell of crop 0, a positive
\* height that differs from the biomass.
C11_Witness ==
    /\ script = 3 /\ pc = "loop" /\ i = 0 /\ j = 2
    /\ writes[0][1] = 1
    /\ FLt(Zero, height[0][1])
    /\ height[0][1] # biomass[0][1]

\* The last sol of the sampled domain 0..668 of a Martian year.
LastSol == F(SOLAR_YEAR - 1, 0)

\* The file has a Day column whose first value is at most 0 and whose last
\* value is at least 668.
CoversYear(file) ==
    /\ file.exists
    /\ ColumnIndex(file, "Day") # 0
    /\ FLe(Rows(file)[1][ColumnIndex(file, "Day")], Zero)
    /\ FLe(LastSol, Rows(file)[Len(Rows(file))][ColumnIndex(file, "Day")])

\* C12: at every simulated day j of a run of plant_simulation_3.py,
\* current_day is in 0..668 and no smaller than on day j - 1, current_hour is
\* in [0, 24), and no run over files that cover days 0..668 ends in OutOfRange.
C12_CalendarInDomain ==
    /\ (script = 3 /\ pc = "loop") =>
          /\ FLe(Zero, current_day(j))
          /\ FLe(current_day(j), LastSol)
          /\ j > 1 => FLe(current_day(j - 1), current_day(j))
          /\ FLe(Zero, current_hour(j))
          /\ FLt(current_hour(j), F(24, 0))
    /\ (script = 3 /\ pc = "failed" /\ err = "OutOfRange") =>
          ~(CoversYear(files.solar) /\ CoversYear(files.temp) /\ CoversYear(files.dust))

\* A run over files that cover the year has come to the last simulated day,
\* more than 100 sols into the year, without failing.
C12_Witness ==
    /\ script = 3 /\ pc = "loop" /\ j = NUM_DAYS - 1
    /\ CoversYear(files.solar) /\ CoversYear(files.temp) /\ CoversYear(files.dust)
    /\ FLt(F(100, 0), current_day(j))
    /\ writes[i][j - 1] = 1

(***************************************************************************)
(* The functions called on their own                                       *)
(***************************************************************************)

\* The arguments tried: multiples of 0.4 between -0.4 * MaxProbe and
\* 0.4 * (MaxProbe + 1), a soil optimum, and a value far from every optimum.
MaxProbe == 2
ProbeValues == {F(4 * k, -1) : k \in -MaxProbe .. MaxProbe + 1} \cup {F(65, -1), F(2000, 0)}
ProbeOptima == {F(-8, -1), Zero, F(8, -1), F(65, -1)}

\* The days, hours and file sets tried by the lookups.
ProbeDays == {F(d, 0) : d \in {-1, 0, 10, 50, 400, 669}}
ProbeHours == {F(0, 0), F(9, 0)}
GeneratedFiles == [solar |-> SolarCsv, temp |-> TemperatureCsv, dust |-> DustCsv(0)]
ProbeFiles == {NoFiles, GeneratedFiles} \cup {ExternalFiles(c) : c \in 1 .. MaxEnv}

InitFn ==
    /\ script = 3
    /\ sample = 0
    /\ rng = 0
    /\ soil = NoSoil
    /\ files = NoFiles
    /\ pc = "start"
    /\ run = 0
    /\ i = 0
    /\ j = 0
    /\ biomass = <<>>
    /\ height = <<>>
    /\ err = "none"
    /\ writes = NoWrites
    /\ first = <<>>
    /\ call = NoCall
    /\ prev = NoCall
    /\ PlantsOff

FnFrame == UNCHANGED <<script, sample, rng, soil, files, pc, run, i, j, biomass,
                       height, err, writes, first, plantVars>>

CallGrowthFactor ==
    /\ \E x \in ProbeValues, x_opt \in ProbeOptima :
          call' = [fn |-> "growth_factor", x |-> x, x_opt |-> x_opt,
                   out |-> Value(growth_factor(x, x_opt))]
    /\ prev' = IF call.fn = "growth_factor" THEN call ELSE NoCall
    /\ FnFrame

CallSolarRadiation ==
    /\ \E fs \in ProbeFiles, day \in ProbeDays :
          call' = [fn |-> "solar_radiation", fs |-> fs, day |-> day,
                   out |-> solar_radiation(fs, day)]
    /\ prev' = NoCall
    /\ FnFrame

CallTemperature ==
    /\ \E fs \in ProbeFiles, day \in ProbeDays, hour \in ProbeHours :
          call' = [fn |-> "temperature", fs |-> fs, day |-> day, hour |-> hour,
                   out |-> temperature(fs, day, hour)]
    /\ prev' = NoCall
    /\ FnFrame

CallDustStorm ==
    /\ \E fs \in ProbeFiles, day \in ProbeDays :
          call' = [fn |-> "dust_storm", fs |-> fs, day |-> day,
                   out |-> dust_storm(fs, day)]
    /\ prev' = NoCall
    /\ FnFrame

NextFn ==
    \/ CallGrowthFactor
    \/ CallSolarRadiation
    \/ CallTemperature
    \/ CallDustStorm

SpecFn == InitFn /\ [][NextFn]_vars

(***************************************************************************)
(* Properties of the functions called on their own (under SpecFn)          *)
(***************************************************************************)

One == F(1, 0)

IsLookup(c) == c.fn \in {"solar_radiation", "temperature", "dust_storm"}

\* The file a lookup reads and the value column it asks for.
LookedUp(c) ==
    CASE c.fn = "solar_radiation" -> c.fs.solar
      [] c.fn = "temperature" -> c.fs.temp
      [] c.fn = "dust_storm" -> c.fs.dust
ValueColumn(c) ==
    CASE c.fn = "solar_radiation" -> "Solar_Radiation"
      [] c.fn = "temperature" -> "Temperature"
      [] c.fn = "dust_storm" -> "Dust_Opacity"

\* The lookup finds its file and both of its columns.
HasColumns(c) ==
    /\ LookedUp(c).exists
    /\ ColumnIndex(LookedUp(c), "Day") # 0
    /\ ColumnIndex(LookedUp(c), ValueColumn(c)) # 0

TableKey(c, r) == Rows(LookedUp(c))[r][ColumnIndex(LookedUp(c), "Day")]
TableValue(c, r) == Rows(LookedUp(c))[r][ColumnIndex(LookedUp(c), ValueColumn(c))]
TableLen(c) == Len(Rows(LookedUp(c)))

\* The day asked for is below every sampled day or above every sampled day.
OutOfTable(c) ==
    \/ \A r \in 1 .. TableLen(c) : FLt(c.day, TableKey(c, r))
    \/ \A r \in 1 .. TableLen(c) : FLt(TableKey(c, r), c.day)

\* The point at c.day of the straight line through samples k - 1 and k.
OnLine(c, k) ==
    FAdd(FMul(FDiv(FSub(TableValue(c, k), TableValue(c, k - 1)),
                   FSub(TableKey(c, k), TableKey(c, k - 1))),
              FSub(c.day, TableKey(c, k - 1))),
         TableValue(c, k - 1))

\* What the lookup returns when samples k - 1 and k bracket the day:
\* temperature adds its diurnal term to the interpolated value.
Interpolated(c, k) ==
    IF c.fn = "temperature"
    THEN FAdd(OnLine(c, k), FMul(DiurnalVariation, DiurnalFactor(c.hour)))
    ELSE OnLine(c, k)

C6_UnitInterval ==
    (call.fn = "growth_factor" /\ call.x_opt # Zero) =>
        /\ call.out.err = "none"
        /\ call.x = call.x_opt => call.out.val = One
        /\ FLt(Zero, call.out.val)
        /\ FLe(call.out.val, One)

\* The distance |x - x_opt| of a growth_factor call.
Deviation(c) == FAbs(FSub(c.x, c.x_opt))

\* C7: for every optimum x_opt # 0, of two calls with that optimum the one
\* whose x is no farther from the optimum returns no smaller a factor.
C7_Monotone ==
    ( /\ call.fn = "growth_factor"
      /\ prev.fn = "growth_factor"
      /\ call.x_opt = prev.x_opt
      /\ call.x_opt # Zero
      /\ FLe(Deviation(prev), Deviation(call)) )
    => FLe(call.out.val, prev.out.val)

\* C8: a call growth_factor(x, 0) ends in a DivideByZero error outcome and
\* yields no numeric factor.
C8_ZeroOptimumGuarded ==
    (call.fn = "growth_factor" /\ call.x_opt = Zero) =>
        call.out.err = "DivideByZero"

(***************************************************************************)
(* plant_simulation.py run (SpecPlant)                                     *)
(***************************************************************************)

InitPlant ==
    /\ script = 2
    /\ sample = 0
    /\ rng = 0
    /\ soil = NoSoil
    /\ files = NoFiles
    /\ pc = "start"
    /\ run = 0
    /\ i = 0
    /\ j = 0
    /\ biomass = <<>>
    /\ height = <<>>
    /\ err = "none"
    /\ writes = NoWrites
    /\ first = <<>>
    /\ call = NoCall
    /\ prev = NoCall
    /\ \E c \in 0 .. MaxHeavy : plants = PlantList(c)
    /\ WATER_CONTENT = INITIAL_WATER_CONTENT
    /\ NUTRIENT_CONTENT = INITIAL_NUTRIENT_CONTENT
    /\ today = 1
    /\ plant_idx = 1
    /\ ppc = "grow"

PlantFrame == UNCHANGED <<script, sample, rng, soil, files, pc, run, i, j, biomass,
                          height, err, writes, first, call, prev>>

\* plant.grow() of the loop body.
GrowStep ==
    /\ ppc = "grow"
    /\ plants' = [plants EXCEPT ![plant_idx] = grow(@)]
    /\ ppc' = "use"
    /\ UNCHANGED <<WATER_CONTENT, NUTRIENT_CONTENT, today, plant_idx>>
    /\ PlantFrame

\* for day in range(1, 101): for plant in plants: what comes after a plant.
NextPlant ==
    IF plant_idx < Len(plants) THEN today' = today /\ plant_idx' = plant_idx + 1 /\ ppc' = "grow"
    ELSE IF today < LAST_DAY THEN today' = today + 1 /\ plant_idx' = 1 /\ ppc' = "grow"
    ELSE today' = today /\ plant_idx' = plant_idx /\ ppc' = "end"

\* plant.use_resources() of the loop body, and the rest of the iteration.
UseResourcesStep ==
    /\ ppc = "use"
    /\ WATER_CONTENT' = WaterAfter(plants[plant_idx], WATER_CONTENT)
    /\ NUTRIENT_CONTENT' = NutrientAfter(plants[plant_idx], NUTRIENT_CONTENT)
    /\ plants' = [plants EXCEPT ![plant_idx] =
                     use_resources(@, WaterAfter(plants[plant_idx], WATER_CONTENT),
                                   NutrientAfter(plants[plant_idx], NUTRIENT_CONTENT))]
    /\ NextPlant
    /\ PlantFrame

NextPlantSim ==
    \/ GrowStep
    \/ UseResourcesStep

SpecPlant == InitPlant /\ [][NextPlantSim]_vars

\* A shared resource is negative.
Depleted == WATER_CONTENT[1] < 0 \/ NUTRIENT_CONTENT[1] < 0

\* C13: in every step of the 100-day loop of plant_simulation.py the shared
\* WATER_CONTENT and NUTRIENT_CONTENT do not increase, every plant's mass
\* stays positive and no plant that is not alive becomes alive; a
\* use_resources call made when a shared resource is negative leaves its
\* plant not alive; and a plant that is not alive still gains mass when it
\* grows and still takes water and nutrients when it uses resources.
C13_ResourceDepletion ==
    [][ /\ WLe(WATER_CONTENT', WATER_CONTENT)
        /\ WLe(NUTRIENT_CONTENT', NUTRIENT_CONTENT)
        /\ \A k \in DOMAIN plants :
              /\ plants'[k].mass[1] > 0
              /\ ~plants[k].alive => ~plants'[k].alive
        /\ (ppc = "use" /\ Depleted) => ~plants'[plant_idx].alive
        /\ (ppc = "grow" /\ ~plants[plant_idx].alive)
              => WLt(plants[plant_idx].mass, plants'[plant_idx].mass)
        /\ (ppc = "use" /\ ~plants[plant_idx].alive)
              => /\ WLt(WATER_CONTENT', WATER_CONTENT)
                 /\ WLt(NUTRIENT_CONTENT', NUTRIENT_CONTENT) ]_vars

\* A shared resource is negative, every plant has been marked not alive, and
\* the loop goes on: the first plant is about to grow again.
C13_Witness ==
    /\ ppc = "grow" /\ plant_idx = 1 /\ today < LAST_DAY
    /\ Depleted
    /\ \A k \in DOMAIN plants : ~plants[k].alive

=============================================================================
